---- MODULE Spec2Model ----
(***************************************************************************)
(* Model of src/netcore1.py: find_maximum_remainder and                    *)
(* count_special_ranges, each translated statement by statement into a    *)
(* state machine.  One behaviour is one call of one of the two functions. *)
(***************************************************************************)
EXTENDS Integers, Sequences, FiniteSets, TLC

\* ---------------------------------------------------------------- bounds
MaxLen == 3        \* longest arr
MaxNeg == 3        \* arr values range over -MaxNeg..MaxVal
MaxVal == 5
MaxK == 5          \* moduli 1..MaxK
MaxTypes == 3      \* longest types string
NumChars == 2      \* characters are 1..NumChars
MaxSpecials == 2   \* longest specials string
MaxNegLim == 1     \* lower, upper range over -MaxNegLim..MaxTypes+1

Values == (0 - MaxNeg)..MaxVal
Chars == 1..NumChars
Limits == (0 - MaxNegLim)..(MaxTypes + 1)

SeqsUpTo(S, n) == UNION {[1..m -> S] : m \in 0..n}

VARIABLES
  fn,          \* which function this behaviour calls: "fmr" or "csr"
  pc,          \* position in the function body
  ret,         \* returned value (meaningful when pc = "done")
  \* find_maximum_remainder
  arr, k, pos, evens, odds, best, ei, early,
  \* count_special_ranges
  types, specials, lower, upper, binary,
  call, limit, total, current, left, right, atMostUpper, atMostLower

fmrVars == <<arr, k, pos, evens, odds, best, ei, early>>
csrVars == <<types, specials, lower, upper, binary,
             call, limit, total, current, left, right, atMostUpper, atMostLower>>
vars == <<fn, pc, ret, arr, k, pos, evens, odds, best, ei, early,
          types, specials, lower, upper, binary,
          call, limit, total, current, left, right, atMostUpper, atMostLower>>

\* ------------------------------------------------- find_maximum_remainder

\* value % k, then the normalisation of lines 15-16
Remainder(value, m) ==
  LET r == value % m IN IF r < 0 THEN r + m ELSE r

\* value & 1 (two's complement: the low bit of a negative odd number is 1)
IsOdd(value) == value % 2 = 1

\* list.sort(): insertion of each element into an ascending list
RECURSIVE InsertSorted(_, _)
InsertSorted(s, x) ==
  IF s = <<>> THEN <<x>>
  ELSE IF x <= Head(s) THEN <<x>> \o s
  ELSE <<Head(s)>> \o InsertSorted(Tail(s), x)

RECURSIVE Sort(_)
Sort(s) == IF s = <<>> THEN <<>> ELSE InsertSorted(Sort(Tail(s)), Head(s))

\* bisect.bisect_left(a, x): lo, hi = 0, len(a); halve while lo < hi
\* (indices here are 0-based as in the source; a[mid] is a[mid + 1] in TLA+)
RECURSIVE BisectLeftLoop(_, _, _, _)
BisectLeftLoop(a, x, lo, hi) ==
  IF lo < hi
  THEN LET mid == (lo + hi) \div 2
       IN IF a[mid + 1] < x THEN BisectLeftLoop(a, x, mid + 1, hi)
          ELSE BisectLeftLoop(a, x, lo, mid)
  ELSE lo

RECURSIVE BisectRightLoop(_, _, _, _)
BisectRightLoop(a, x, lo, hi) ==
  IF lo < hi
  THEN LET mid == (lo + hi) \div 2
       IN IF x < a[mid + 1] THEN BisectRightLoop(a, x, lo, mid)
          ELSE BisectRightLoop(a, x, mid + 1, hi)
  ELSE lo

BisectRight(a, x) == BisectRightLoop(a, x, 0, Len(a))

BisectLeft(a, x) == BisectLeftLoop(a, x, 0, Len(a))

\* target_best = k - 1
TargetBestOff(m) == m - 2

TargetBest(m) == m - 1

\* candidate = even_rem + odds[idx - 1]
LowCandidate(even_rem, o) == even_rem + o

\* candidate = (even_rem + odds[idx]) % k
WrapCandidateNoMod(even_rem, o, m) == even_rem + o

WrapCandidate(even_rem, o, m) == (even_rem + o) % m

\* the even remainder of the current iteration of `for even_rem in evens`
EvenRem == evens[ei]
Target == k - EvenRem
Idx == BisectLeft(odds, Target)

\* lines 7-11, 25-26 are folded into the steps that follow them
FmrEnter ==
  /\ fn = "fmr" /\ pc = "start"
  /\ IF k = 1
     THEN /\ pc' = "done" /\ ret' = 0
          /\ UNCHANGED <<evens, odds>>
     ELSE /\ pc' = "partition" /\ ret' = ret
          /\ evens' = <<>> /\ odds' = <<>>
  /\ pos' = 1
  /\ UNCHANGED <<fn, arr, k, best, ei, early>>
  /\ UNCHANGED csrVars

\* one iteration of `for value in arr` (lines 13-20)
PartitionStepRemParity ==
  /\ fn = "fmr" /\ pc = "partition" /\ pos <= Len(arr)
  /\ LET value == arr[pos]
         remainder == Remainder(value, k)
     IN IF IsOdd(remainder)
        THEN /\ odds' = Append(odds, remainder) /\ evens' = evens
        ELSE /\ evens' = Append(evens, remainder) /\ odds' = odds
  /\ pos' = pos + 1
  /\ UNCHANGED <<fn, pc, ret, arr, k, best, ei, early>>
  /\ UNCHANGED csrVars

PartitionStep ==
  /\ fn = "fmr" /\ pc = "partition" /\ pos <= Len(arr)
  /\ LET value == arr[pos]
         remainder == Remainder(value, k)
     IN IF IsOdd(value)
        THEN /\ odds' = Append(odds, remainder) /\ evens' = evens
        ELSE /\ evens' = Append(evens, remainder) /\ odds' = odds
  /\ pos' = pos + 1
  /\ UNCHANGED <<fn, pc, ret, arr, k, best, ei, early>>
  /\ UNCHANGED csrVars

\* lines 22-26: both sorts, best = 0
SortLists ==
  /\ fn = "fmr" /\ pc = "partition" /\ pos > Len(arr)
  /\ evens' = Sort(evens)
  /\ odds' = Sort(odds)
  /\ best' = 0
  /\ ei' = 1
  /\ pc' = "scan_low"
  /\ UNCHANGED <<fn, ret, arr, k, pos, early>>
  /\ UNCHANGED csrVars

\* lines 29-37: target, idx, the un-wrapped candidate
ScanLow ==
  /\ fn = "fmr" /\ pc = "scan_low" /\ ei <= Len(evens)
  /\ IF Idx > 0
     THEN LET candidate == LowCandidate(EvenRem, odds[Idx])
          IN IF candidate > best
             THEN /\ best' = candidate
                  /\ IF candidate = TargetBest(k)
                     THEN /\ pc' = "done" /\ ret' = candidate /\ early' = TRUE
                     ELSE /\ pc' = "scan_high" /\ UNCHANGED <<ret, early>>
             ELSE /\ pc' = "scan_high" /\ UNCHANGED <<best, ret, early>>
     ELSE /\ pc' = "scan_high" /\ UNCHANGED <<best, ret, early>>
  /\ UNCHANGED <<fn, arr, k, pos, evens, odds, ei>>
  /\ UNCHANGED csrVars

\* lines 39-44: the wrapped candidate, then the next even_rem
ScanHigh ==
  /\ fn = "fmr" /\ pc = "scan_high"
  /\ IF Idx < Len(odds)
     THEN LET candidate == WrapCandidate(EvenRem, odds[Idx + 1], k)
          IN IF candidate > best
             THEN /\ best' = candidate
                  /\ IF candidate = TargetBest(k)
                     THEN /\ pc' = "done" /\ ret' = candidate /\ early' = TRUE
                          /\ ei' = ei
                     ELSE /\ pc' = "scan_low" /\ ei' = ei + 1
                          /\ UNCHANGED <<ret, early>>
             ELSE /\ pc' = "scan_low" /\ ei' = ei + 1
                  /\ UNCHANGED <<best, ret, early>>
     ELSE /\ pc' = "scan_low" /\ ei' = ei + 1
          /\ UNCHANGED <<best, ret, early>>
  /\ UNCHANGED <<fn, arr, k, pos, evens, odds>>
  /\ UNCHANGED csrVars

\* line 46
FmrReturn ==
  /\ fn = "fmr" /\ pc = "scan_low" /\ ei > Len(evens)
  /\ pc' = "done"
  /\ ret' = best
  /\ UNCHANGED <<fn, arr, k, pos, evens, odds, best, ei, early>>
  /\ UNCHANGED csrVars

\* --------------------------------------------------- count_special_ranges

\* set(specials)
SpecialSet(str) == {str[i] : i \in 1..Len(str)}

\* [1 if ch in special_set else 0 for ch in types]
Binary(str, special_set) ==
  [i \in 1..Len(str) |-> IF str[i] \in special_set THEN 1 ELSE 0]

\* the argument of the second call: lower - 1
LowerLimitSame(lo) == lo

LowerLimit(lo) == lo - 1

\* the loop condition of line 61
ShrinkCondInclusive(cur, lim) == cur >= lim

ShrinkCond(cur, lim) == cur > lim

\* right - left + 1 (line 64)
WindowCountShort(l, r) == r - l

WindowCount(l, r) == r - l + 1

\* count_at_most(upper) - count_at_most(lower - 1)
RangeResultSwapped(hi, lo) == lo - hi

RangeResult(hi, lo) == hi - lo

\* lines 50-51, then the first call count_at_most(upper)
CsrEnter ==
  /\ fn = "csr" /\ pc = "start"
  /\ binary' = Binary(types, SpecialSet(specials))
  /\ call' = "upper"
  /\ limit' = upper
  /\ pc' = "at_most"
  /\ UNCHANGED <<fn, ret, types, specials, lower, upper,
                 total, current, left, right, atMostUpper, atMostLower>>
  /\ UNCHANGED fmrVars

\* lines 54-58
AtMostEnter ==
  /\ fn = "csr" /\ pc = "at_most"
  /\ IF limit < 0
     THEN /\ pc' = "at_most_return"
          /\ total' = 0
          /\ UNCHANGED <<current, left, right>>
     ELSE /\ pc' = "for"
          /\ total' = 0
          /\ current' = 0
          /\ left' = 0
          /\ right' = 0
  /\ UNCHANGED <<fn, ret, types, specials, lower, upper, binary,
                 call, limit, atMostUpper, atMostLower>>
  /\ UNCHANGED fmrVars

\* lines 59-60: the next (right, val) of enumerate(binary); current += val
ForNext ==
  /\ fn = "csr" /\ pc = "for" /\ right < Len(binary)
  /\ current' = current + binary[right + 1]
  /\ pc' = "while"
  /\ UNCHANGED <<fn, ret, types, specials, lower, upper, binary,
                 call, limit, total, left, right, atMostUpper, atMostLower>>
  /\ UNCHANGED fmrVars

\* lines 61-63: one iteration of the while loop; binary[left] past the end
\* of the list raises IndexError
WhileShrink ==
  /\ fn = "csr" /\ pc = "while" /\ ShrinkCond(current, limit)
  /\ IF left >= Len(binary)
     THEN /\ pc' = "error"
          /\ UNCHANGED <<current, left>>
     ELSE /\ current' = current - binary[left + 1]
          /\ left' = left + 1
          /\ pc' = pc
  /\ UNCHANGED <<fn, ret, types, specials, lower, upper, binary,
                 call, limit, total, right, atMostUpper, atMostLower>>
  /\ UNCHANGED fmrVars

\* line 64, reached when the while condition is false
AddTotal ==
  /\ fn = "csr" /\ pc = "while" /\ ~ShrinkCond(current, limit)
  /\ total' = total + WindowCount(left, right)
  /\ right' = right + 1
  /\ pc' = "for"
  /\ UNCHANGED <<fn, ret, types, specials, lower, upper, binary,
                 call, limit, current, left, atMostUpper, atMostLower>>
  /\ UNCHANGED fmrVars

\* line 65: enumerate(binary) is exhausted
ForExit ==
  /\ fn = "csr" /\ pc = "for" /\ right >= Len(binary)
  /\ pc' = "at_most_return"
  /\ UNCHANGED <<fn, ret, types, specials, lower, upper, binary,
                 call, limit, total, current, left, right,
                 atMostUpper, atMostLower>>
  /\ UNCHANGED fmrVars

\* line 67: the value of a call comes back; after count_at_most(upper) the
\* second call count_at_most(lower - 1) is made, after it the difference
\* is returned
AtMostReturn ==
  /\ fn = "csr" /\ pc = "at_most_return"
  /\ IF call = "upper"
     THEN /\ atMostUpper' = total
          /\ call' = "lower"
          /\ limit' = LowerLimit(lower)
          /\ pc' = "at_most"
          /\ UNCHANGED <<ret, atMostLower>>
     ELSE /\ atMostLower' = total
          /\ ret' = RangeResult(atMostUpper, total)
          /\ pc' = "done"
          /\ UNCHANGED <<call, limit, atMostUpper>>
  /\ UNCHANGED <<fn, types, specials, lower, upper, binary,
                 total, current, left, right>>
  /\ UNCHANGED fmrVars

\* ------------------------------------------------------- specification

InitFmr ==
  /\ fn = "fmr"
  /\ arr \in SeqsUpTo(Values, MaxLen)
  /\ k \in 1..MaxK
  /\ types = <<>> /\ specials = <<>> /\ lower = 0 /\ upper = 0

InitCsr ==
  /\ fn = "csr"
  /\ types \in SeqsUpTo(Chars, MaxTypes)
  /\ specials \in SeqsUpTo(Chars, MaxSpecials)
  /\ lower \in Limits
  /\ upper \in Limits
  /\ arr = <<>> /\ k = 1

Init ==
  /\ InitFmr \/ InitCsr
  /\ pc = "start"
  /\ ret = 0
  /\ pos = 0 /\ evens = <<>> /\ odds = <<>> /\ best = 0 /\ ei = 0
  /\ early = FALSE
  /\ binary = <<>> /\ call = "none" /\ limit = 0 /\ total = 0
  /\ current = 0 /\ left = 0 /\ right = 0
  /\ atMostUpper = 0 /\ atMostLower = 0

Next ==
  \/ FmrEnter
  \/ PartitionStep
  \/ SortLists
  \/ ScanLow
  \/ ScanHigh
  \/ FmrReturn
  \/ CsrEnter
  \/ AtMostEnter
  \/ ForNext
  \/ WhileShrink
  \/ AddTotal
  \/ ForExit
  \/ AtMostReturn

Spec == Init /\ [][Next]_vars

\* ------------------------------------------------------ reference values

Max(S) == CHOOSE x \in S : \A y \in S : y <= x

\* all (a + b) mod k with a an even-valued and b an odd-valued element
PairRemainders(a, m) ==
  {(a[i] + a[j]) % m : i \in {x \in 1..Len(a) : a[x] % 2 = 0},
                       j \in {x \in 1..Len(a) : a[x] % 2 = 1}}

MaxPairRemainder(a, m) ==
  IF PairRemainders(a, m) = {} THEN 0 ELSE Max(PairRemainders(a, m))

\* number of specials in types[i..j] (1-based, inclusive)
SpecialsIn(i, j) ==
  Cardinality({p \in i..j : types[p] \in SpecialSet(specials)})

\* index pairs i <= j whose count of specials lies in [lo, hi]
BruteCount(lo, hi) ==
  Cardinality({w \in (1..Len(types)) \X (1..Len(types)) :
                 /\ w[1] <= w[2]
                 /\ SpecialsIn(w[1], w[2]) >= lo
                 /\ SpecialsIn(w[1], w[2]) <= hi})

\* the scan of lines 28-44 over evens[i..] with both `return best`
\* statements removed: the value `best` holds when the for loop ends
RECURSIVE FullScan(_, _)
FullScan(i, b) ==
  IF i > Len(evens) THEN b
  ELSE LET e == evens[i]
           idx == BisectLeft(odds, k - e)
           b1 == IF idx > 0 /\ LowCandidate(e, odds[idx]) > b
                 THEN LowCandidate(e, odds[idx]) ELSE b
           b2 == IF idx < Len(odds) /\ WrapCandidate(e, odds[idx + 1], k) > b1
                 THEN WrapCandidate(e, odds[idx + 1], k) ELSE b1
       IN FullScan(i + 1, b2)

\* sum of binary[i..j], 0-based and inclusive as in the source
RECURSIVE WinSum(_, _)
WinSum(i, j) == IF i > j THEN 0 ELSE binary[i + 1] + WinSum(i + 1, j)

HasEven(a) == \E i \in 1..Len(a) : a[i] % 2 = 0
HasOdd(a) == \E i \in 1..Len(a) : a[i] % 2 = 1

TypeOK ==
  /\ fn \in {"fmr", "csr"}
  /\ pc \in {"start", "partition", "scan_low", "scan_high", "at_most",
             "for", "while", "at_most_return", "done", "error"}

\* ----------------------------------------------------------------- claims

\* C1: for k >= 2 the value returned by find_maximum_remainder is the
\* maximum of (a + b) mod k over the pairs of an even-valued element a and
\* an odd-valued element b of arr, and 0 when there is no such pair.
C1_ReturnsMaxOverPairs ==
  (fn = "fmr" /\ pc = "done" /\ k >= 2) => ret = MaxPairRemainder(arr, k)

\* C2: when lower <= upper (negative bounds included) the value returned by
\* count_special_ranges is the number of index pairs i <= j whose window of
\* types holds between lower and upper characters of specials.
C2_EqualsBruteForce ==
  (fn = "csr" /\ pc = "done" /\ lower <= upper)
    => ret = BruteCount(lower, upper)

C2_Witness ==
  /\ fn = "csr" /\ pc = "done"
  /\ lower < 0 /\ upper >= 1
  /\ ret > 0
  /\ ret < (Len(types) * (Len(types) + 1)) \div 2

\* C3: for k >= 1 and any arr, negative values included, the running value
\* best stays within 0..k-1 during the scan and so does the returned value.
C3_ResultInRange ==
  fn = "fmr" =>
    /\ pc \in {"scan_low", "scan_high", "done"} => (best >= 0 /\ best <= k - 1)
    /\ pc = "done" => (ret >= 0 /\ ret <= k - 1)

C3_Witness ==
  /\ fn = "fmr" /\ pc = "done" /\ k >= 3
  /\ \E i \in 1..Len(arr) : arr[i] < 0
  /\ \E i \in 1..Len(odds) : \E j \in 1..Len(evens) : evens[j] + odds[i] >= k
  /\ ret = k - 1

\* C4: find_maximum_remainder returns 0 when k = 1, and for any k when arr
\* has no even-valued element or no odd-valued element (empty arr included).
C4_ZeroWithoutPair ==
  (fn = "fmr" /\ pc = "done" /\ (k = 1 \/ ~HasEven(arr) \/ ~HasOdd(arr)))
    => ret = 0

C4_Witness ==
  /\ fn = "fmr" /\ pc = "done" /\ k >= 2
  /\ Len(arr) >= 2 /\ ~HasOdd(arr)
  /\ \E i \in 1..Len(evens) : evens[i] % 2 = 1
  /\ ret = 0

\* C5: with lower = 0 and upper = len(types), count_special_ranges returns
\* len(types) * (len(types) + 1) / 2.
C5_AllSubstrings ==
  (fn = "csr" /\ pc = "done" /\ lower = 0 /\ upper = Len(types))
    => ret = (Len(types) * (Len(types) + 1)) \div 2

C5_Witness ==
  /\ fn = "csr" /\ pc = "done" /\ lower = 0 /\ upper = Len(types)
  /\ Len(types) >= 2
  /\ \E i \in 1..Len(binary) : binary[i] = 1
  /\ ret = (Len(types) * (Len(types) + 1)) \div 2

\* C6: count_at_most is non-decreasing in its limit: whenever
\* lower - 1 <= upper, count_at_most(lower - 1) <= count_at_most(upper), so
\* the returned difference is non-negative.
C6_MonotoneInLimit ==
  (fn = "csr" /\ pc = "done" /\ lower <= upper + 1)
    => (atMostLower <= atMostUpper /\ ret >= 0)

C6_Witness ==
  /\ fn = "csr" /\ pc = "done" /\ lower <= upper + 1
  /\ lower >= 1
  /\ atMostLower > 0 /\ atMostLower < atMostUpper

\* C7: for the even remainder of each iteration (odds non-empty), the larger
\* of the two candidates the scan examines, even_rem + odds[idx - 1] and
\* (even_rem + odds[idx]) mod k, is the maximum of (even_rem + o) mod k over
\* all odd remainders o.
C7_CandidatesAreBest ==
  (fn = "fmr" /\ pc = "scan_high" /\ odds # <<>>) =>
    Max((IF Idx > 0 THEN {LowCandidate(EvenRem, odds[Idx])} ELSE {})
        \cup (IF Idx < Len(odds)
              THEN {WrapCandidate(EvenRem, odds[Idx + 1], k)} ELSE {}))
      = Max({(EvenRem + odds[j]) % k : j \in 1..Len(odds)})

\* C8: in count_at_most with limit >= 0, binary[left] is never read out of
\* bounds, left never decreases, 0 <= left <= right + 1, current is the sum
\* of binary[left..right]; and where total is incremented current <= limit,
\* left is the smallest index with that property and right - left + 1 is
\* the number of windows ending at right whose sum is <= limit.
C8_WindowState ==
  fn = "csr" =>
    /\ pc # "error"
    /\ pc = "while" =>
         /\ limit >= 0
         /\ 0 <= left /\ left <= right + 1
         /\ current = WinSum(left, right)
    /\ (pc = "while" /\ current <= limit) =>
         /\ \A l \in 0..(left - 1) : WinSum(l, right) > limit
         /\ Cardinality({i \in 0..right : WinSum(i, right) <= limit})
              = right - left + 1

C8_LeftMonotone ==
  (pc \in {"for", "while"} /\ pc' \in {"for", "while"}) => left' >= left

C8_WindowInvariant == []C8_WindowState /\ [][C8_LeftMonotone]_vars

C8_Witness ==
  /\ fn = "csr" /\ pc = "while" /\ current <= limit
  /\ limit >= 1 /\ left >= 2 /\ left <= right

\* C9: for k >= 2 the returned value equals the value of the same scan with
\* the two early returns removed, and a return taken inside the loop
\* returns exactly k - 1.
C9_EarlyReturnHarmless ==
  (fn = "fmr" /\ pc = "done" /\ k >= 2) =>
    /\ ret = FullScan(1, 0)
    /\ early => ret = k - 1

C9_Witness ==
  /\ fn = "fmr" /\ pc = "done" /\ k >= 3
  /\ early /\ ei < Len(evens)
  /\ ret = k - 1

\* C10: for k >= 2 best never decreases, every non-zero value it holds and
\* every non-zero returned value is (a + b) mod k for an even-valued a and
\* an odd-valued b of arr, and the returned value is at most the maximum
\* over such pairs.
C10_BestState ==
  (fn = "fmr" /\ k >= 2) =>
    /\ (pc \in {"scan_low", "scan_high", "done"} /\ best # 0)
         => best \in PairRemainders(arr, k)
    /\ pc = "done" =>
         /\ ret # 0 => ret \in PairRemainders(arr, k)
         /\ ret <= MaxPairRemainder(arr, k)

C10_BestMonotone == fn = "fmr" => best' >= best

C10_Sound == []C10_BestState /\ [][C10_BestMonotone]_vars

C10_Witness ==
  /\ fn = "fmr" /\ pc = "done" /\ k >= 3
  /\ ret > 0 /\ ret < MaxPairRemainder(arr, k)

====
